---- MODULE Spec2Model ----
(***************************************************************************)
(* A model of lb_redis_client: the two helpers of src/lib/utils.js         *)
(* (mergeObjects, fromString) over JavaScript values, and the promise      *)
(* based access layer of src/index.js over a redis store.                  *)
(*                                                                         *)
(* JavaScript strings are sequences of one-character strings, so that      *)
(* parsing and formatting are computed character by character.  A finite   *)
(* number is a decimal m * 10^e kept normalised (m = 0 and e = 0, or m not *)
(* divisible by 10), so that equal numbers are equal records.  Every       *)
(* number the model draws has at most 15 significant digits and an         *)
(* exponent well inside the range of a double, where decimal comparison    *)
(* and the comparison of the doubles agree.                                *)
(***************************************************************************)
EXTENDS Integers, Sequences, FiniteSets, TLC

VARIABLES
    uFn,      \* the helper under call: "mergeObjects" or "fromString"
    uArgs,    \* its arguments
    uRet,     \* the values returned so far (fromString is applied twice)
    config,         \* index.js: let config
    redisReady,     \* index.js: let redisReady
    redisClient,    \* index.js: let redisClient (0: undefined, else the client's number)
    connecting,     \* clients created whose 'ready' event has not fired yet
    store,          \* the redis data set: store key -> entry
    inflight,       \* commands sent to a client and not answered yet, oldest first
    observed,       \* the latest thing a caller saw: a call returning or a promise settling
    supplied        \* history: per field, the latest truthy override or the default

utilVars  == <<uFn, uArgs, uRet>>
indexVars == <<config, redisReady, redisClient, connecting, store, inflight,
               observed, supplied>>
vars      == <<uFn, uArgs, uRet, config, redisReady, redisClient, connecting,
               store, inflight, observed, supplied>>

(***************************************************************************)
(* Bounds of the model.                                                    *)
(***************************************************************************)
MaxLen == 3        \* longest string drawn over Alphabet
MaxMant == 12      \* largest mantissa of a drawn native number
MaxExp == 2        \* largest decimal exponent of a drawn native number
MaxPending == 1    \* commands in flight at once
MaxClients == 1    \* clients created by initialize

(***************************************************************************)
(* JavaScript values.                                                      *)
(***************************************************************************)
Undefined == [t |-> "undefined"]
Null      == [t |-> "null"]
Symbol    == [t |-> "symbol"]
NaN       == [t |-> "number", k |-> "nan", m |-> 0, e |-> 0]
Bool(b)   == [t |-> "boolean", b |-> b]
Str(s)    == [t |-> "string", s |-> s]
Inf(sg)   == [t |-> "number", k |-> "inf", m |-> sg, e |-> 0]
Obj(o)    == [t |-> "object", o |-> o]
Arr(a)    == [t |-> "array", a |-> a]
Throw(n)  == [t |-> "throw", err |-> n]

RECURSIVE Fin(_, _)
Fin(m, e) ==
    IF m = 0 THEN [t |-> "number", k |-> "fin", m |-> 0, e |-> 0]
    ELSE IF m % 10 = 0 THEN Fin(m \div 10, e + 1)
    ELSE [t |-> "number", k |-> "fin", m |-> m, e |-> e]

EmptyObject == Obj(<<>>)
Zero        == Fin(0, 0)

(***************************************************************************)
(* Characters and literals.                                                *)
(***************************************************************************)
Digits      == <<"0", "1", "2", "3", "4", "5", "6", "7", "8", "9">>
HexLetters  == <<"a", "b", "c", "d", "e", "f">>
WhiteSpace  == {" "}
InfinityLit == <<"I", "n", "f", "i", "n", "i", "t", "y">>
UndefinedLit == <<"u", "n", "d", "e", "f", "i", "n", "e", "d">>
NullLit     == <<"n", "u", "l", "l">>

IsDigit(c)    == \E i \in 1..10 : Digits[i] = c
DigitVal(c)   == (CHOOSE i \in 1..10 : Digits[i] = c) - 1
IsHexDigit(c) == IsDigit(c) \/ \E i \in 1..6 : HexLetters[i] = c
HexVal(c)     == IF IsDigit(c) THEN DigitVal(c)
                 ELSE 9 + (CHOOSE i \in 1..6 : HexLetters[i] = c)

Drop(s, n) == SubSeq(s, n + 1, Len(s))
Zeros(n)   == [i \in 1..n |-> "0"]

RECURSIVE TakeDigits(_)
TakeDigits(s) ==
    IF s # <<>> /\ IsDigit(Head(s)) THEN <<Head(s)>> \o TakeDigits(Tail(s))
    ELSE <<>>

RECURSIVE DigitsValue(_)
DigitsValue(ds) ==
    IF ds = <<>> THEN 0
    ELSE DigitsValue(SubSeq(ds, 1, Len(ds) - 1)) * 10 + DigitVal(ds[Len(ds)])

RECURSIVE StripTrailingZeros(_)
StripTrailingZeros(ds) ==
    IF ds # <<>> /\ ds[Len(ds)] = "0"
    THEN StripTrailingZeros(SubSeq(ds, 1, Len(ds) - 1)) ELSE ds

\* The number with decimal digits ds scaled by 10^e.
DecimalOf(ds, e) ==
    Fin(DigitsValue(StripTrailingZeros(ds)),
        e + Len(ds) - Len(StripTrailingZeros(ds)))

RECURSIVE HexValue(_)
HexValue(ds) ==
    IF ds = <<>> THEN 0
    ELSE HexValue(SubSeq(ds, 1, Len(ds) - 1)) * 16 + HexVal(ds[Len(ds)])

RECURSIVE NatDigits(_)
NatDigits(n) ==
    IF n < 10 THEN <<Digits[n + 1]>>
    ELSE Append(NatDigits(n \div 10), Digits[(n % 10) + 1])

RECURSIVE TrimLeft(_)
TrimLeft(s) ==
    IF s # <<>> /\ Head(s) \in WhiteSpace THEN TrimLeft(Tail(s)) ELSE s

RECURSIVE TrimRight(_)
TrimRight(s) ==
    IF s # <<>> /\ s[Len(s)] \in WhiteSpace
    THEN TrimRight(SubSeq(s, 1, Len(s) - 1)) ELSE s

(***************************************************************************)
(* The longest prefix of s that is a StrDecimalLiteral: an optional sign,  *)
(* then Infinity, or digits with an optional fraction and exponent.        *)
(***************************************************************************)
SignLen(s) == IF s # <<>> /\ Head(s) \in {"+", "-"} THEN 1 ELSE 0
SignOf(s)  == IF s # <<>> /\ Head(s) = "-" THEN -1 ELSE 1

HasDot(r)     == r # <<>> /\ Head(r) = "."
FractionOf(r) == IF HasDot(r) THEN TakeDigits(Tail(r)) ELSE <<>>

\* ip: the integer digits read, r: what follows them.
MantissaFrom(ip, r) ==
    [ok    |-> ip # <<>> \/ FractionOf(r) # <<>>,
     ds    |-> ip \o FractionOf(r),
     scale |-> Len(FractionOf(r)),
     rest  |-> IF HasDot(r) THEN Drop(r, 1 + Len(FractionOf(r))) ELSE r]

ParseMantissa(s) == MantissaFrom(TakeDigits(s), Drop(s, Len(TakeDigits(s))))

ExpDigits(r) == TakeDigits(Drop(r, SignLen(r)))

\* The exponent part is read only when it is complete: e, a sign, digits.
ParseExponent(r) ==
    IF r # <<>> /\ Head(r) \in {"e", "E"} /\ ExpDigits(Tail(r)) # <<>>
    THEN [ex   |-> SignOf(Tail(r)) * DigitsValue(ExpDigits(Tail(r))),
          rest |-> Drop(Tail(r), SignLen(Tail(r)) + Len(ExpDigits(Tail(r))))]
    ELSE [ex |-> 0, rest |-> r]

UnsignedDecimal(r) ==
    IF Len(r) >= 8 /\ SubSeq(r, 1, 8) = InfinityLit
    THEN [ok |-> TRUE, v |-> Inf(1), rest |-> Drop(r, 8)]
    ELSE IF ParseMantissa(r).ok
    THEN [ok   |-> TRUE,
          v    |-> DecimalOf(ParseMantissa(r).ds,
                             ParseExponent(ParseMantissa(r).rest).ex
                               - ParseMantissa(r).scale),
          rest |-> ParseExponent(ParseMantissa(r).rest).rest]
    ELSE [ok |-> FALSE, v |-> NaN, rest |-> r]

Negate(v) == IF v.k = "nan" THEN v ELSE [v EXCEPT !.m = -v.m]

ParseDecimal(s) ==
    LET p == UnsignedDecimal(Drop(s, SignLen(s)))
    IN  IF p.ok
        THEN [p EXCEPT !.v = IF SignOf(s) < 0 THEN Negate(p.v) ELSE p.v]
        ELSE [ok |-> FALSE, v |-> NaN, rest |-> s]

IsHexLiteral(s) ==
    /\ Len(s) >= 3
    /\ s[1] = "0"
    /\ s[2] \in {"x", "X"}
    /\ \A i \in 3..Len(s) : IsHexDigit(s[i])

\* Number(string): the whole trimmed string must be a numeric literal.
StringToNumber(s) ==
    LET t == TrimRight(TrimLeft(s))
        p == ParseDecimal(t)
    IN  IF t = <<>> THEN Fin(0, 0)
        ELSE IF IsHexLiteral(t) THEN Fin(HexValue(Drop(t, 2)), 0)
        ELSE IF p.ok /\ p.rest = <<>> THEN p.v
        ELSE NaN

\* String(number).
NumberToString(x) ==
    IF x.k = "nan" THEN <<"N", "a", "N">>
    ELSE IF x.k = "inf" THEN (IF x.m < 0 THEN <<"-">> ELSE <<>>) \o InfinityLit
    ELSE IF x.m = 0 THEN <<"0">>
    ELSE
      LET neg  == x.m < 0
          ds   == NatDigits(IF neg THEN -x.m ELSE x.m)
          k    == Len(ds)
          n    == x.e + k
          ex   == n - 1
          es   == (IF ex < 0 THEN <<"-">> ELSE <<"+">>)
                    \o NatDigits(IF ex < 0 THEN -ex ELSE ex)
          body == IF k <= n /\ n <= 21 THEN ds \o Zeros(n - k)
                  ELSE IF 0 < n /\ n <= 21
                  THEN SubSeq(ds, 1, n) \o <<".">> \o SubSeq(ds, n + 1, k)
                  ELSE IF -6 < n /\ n <= 0 THEN <<"0", ".">> \o Zeros(-n) \o ds
                  ELSE IF k = 1 THEN ds \o <<"e">> \o es
                  ELSE <<ds[1], ".">> \o SubSeq(ds, 2, k) \o <<"e">> \o es
      IN  (IF neg THEN <<"-">> ELSE <<>>) \o body

\* The implicit conversions of the language.
ToBoolean(v) ==
    CASE v.t = "undefined" -> FALSE
      [] v.t = "null"      -> FALSE
      [] v.t = "boolean"   -> v.b
      [] v.t = "number"    -> ~(v.k = "nan" \/ (v.k = "fin" /\ v.m = 0))
      [] v.t = "string"    -> v.s # <<>>
      [] OTHER             -> TRUE

ToNumber(v) ==
    CASE v.t = "undefined" -> NaN
      [] v.t = "null"      -> Fin(0, 0)
      [] v.t = "boolean"   -> IF v.b THEN Fin(1, 0) ELSE Fin(0, 0)
      [] v.t = "number"    -> v
      [] v.t = "string"    -> StringToNumber(v.s)
      [] v.t = "symbol"    -> Throw("TypeError")
      [] OTHER             -> NaN

String(v) ==
    CASE v.t = "undefined" -> UndefinedLit
      [] v.t = "null"      -> NullLit
      [] v.t = "boolean"   -> IF v.b THEN <<"t", "r", "u", "e">>
                              ELSE <<"f", "a", "l", "s", "e">>
      [] v.t = "number"    -> NumberToString(v)
      [] v.t = "string"    -> v.s
      [] OTHER             -> <<"[", "o", "b", "j", "e", "c", "t", " ",
                                "O", "b", "j", "e", "c", "t", "]">>

\* ===: two NaN are never equal.
StrictEquals(a, b) == a = b /\ a # NaN

isNaN(v) == LET n == ToNumber(v) IN IF n.t = "throw" THEN n ELSE Bool(n = NaN)

parseFloat(v) ==
    LET p == ParseDecimal(TrimLeft(String(v)))
    IN  IF p.ok THEN p.v ELSE NaN

parseInt(v) ==
    LET t   == TrimLeft(String(v))
        sg  == IF t # <<>> /\ Head(t) \in {"+", "-"} THEN 1 ELSE 0
        neg == t # <<>> /\ Head(t) = "-"
        ds  == TakeDigits(Drop(t, sg))
    IN  IF ds = <<>> THEN NaN
        ELSE IF neg THEN Negate(DecimalOf(ds, 0)) ELSE DecimalOf(ds, 0)

\* The own enumerable properties of a value used as an object.
OwnProperties(v) ==
    CASE v.t = "object" -> v.o
      [] v.t = "string" -> [i \in {Digits[j] : j \in 1..Len(v.s)} |->
                              Str(<<v.s[DigitVal(i) + 1]>>)]
      [] OTHER          -> <<>>

(***************************************************************************)
(* src/lib/utils.js                                                        *)
(***************************************************************************)
\* isEmpty as it would be if the string "0" were classified as empty too.
isEmpty_zeroString(variable) ==
    \/ ~ToBoolean(variable)
    \/ variable = Str(NullLit)
    \/ variable = Str(UndefinedLit)
    \/ variable = Str(<<"0">>)

isEmpty(variable) ==
    \/ ~ToBoolean(variable)
    \/ variable = Str(NullLit)
    \/ variable = Str(UndefinedLit)

\* mergeObjects without the filter on truthy override values.
mergeObjects_unfiltered(obj, target) ==
    IF ~ToBoolean(obj) \/ ~ToBoolean(target) THEN EmptyObject
    ELSE Obj([key \in DOMAIN OwnProperties(obj) \cup DOMAIN OwnProperties(target) |->
                IF key \in DOMAIN OwnProperties(target)
                THEN OwnProperties(target)[key] ELSE OwnProperties(obj)[key]])

mergeObjects(obj, target) ==
    IF ~ToBoolean(obj) \/ ~ToBoolean(target) THEN EmptyObject
    ELSE
      LET t         == OwnProperties(target)
          b         == OwnProperties(obj)
          kept      == {key \in DOMAIN t : ToBoolean(t[key])}
          sourceObj == [key \in kept |-> t[key]]
      IN  Obj([key \in DOMAIN b \cup kept |->
                 IF key \in kept THEN sourceObj[key] ELSE b[key]])

\* fromString without the isNaN guard that hands non-numeric input back.
fromString_noNaNCheck(item) ==
    IF item = Str(UndefinedLit) THEN Undefined
    ELSE IF isEmpty(item) THEN Null
    ELSE IF isNaN(item).t = "throw" THEN isNaN(item)
    ELSE IF StrictEquals(parseInt(item), parseFloat(item)) THEN parseInt(item)
    ELSE parseFloat(item)

fromString(item) ==
    IF item = Str(UndefinedLit) THEN Undefined
    ELSE IF isEmpty(item) THEN Null
    ELSE IF isNaN(item).t = "throw" THEN isNaN(item)
    ELSE IF isNaN(item).b THEN item
    ELSE LET f == parseFloat(item)
             i == parseInt(item)
         IN  IF StrictEquals(i, f) THEN i ELSE f

(***************************************************************************)
(* The values the helpers are called with.                                 *)
(***************************************************************************)
Alphabet == {"0", "1", "5", ".", "-", " ", "a", "e", "x"}

LiteralStrings ==
    { UndefinedLit, NullLit, InfinityLit,
      <<"1", "9", "2">>, <<"1", "0", ".", "1", "1">>, <<"a", "b", "c">>,
      <<"1", "2", "3", "a", "b", "c">>, <<"0", "x", "1", "0">>,
      <<"-", "1", ".", "5", "e", "+", "2">>, <<" ", "1", "2", " ">> }

Strings == UNION {[1..n -> Alphabet] : n \in 0..MaxLen} \cup LiteralStrings

NativeNumbers ==
    {Fin(m, e) : m \in -MaxMant..MaxMant, e \in -MaxExp..MaxExp}
      \cup {NaN, Inf(1), Inf(-1), Fin(192, 0), Fin(1011, -2), Fin(1, 21),
            Fin(15, -8), Fin(-123456, -9)}

CoerceInputs ==
    {Str(s) : s \in Strings} \cup NativeNumbers
      \cup {Null, Undefined, Bool(TRUE), Bool(FALSE), Symbol, EmptyObject}

MergeKeys   == {"foo", "bar"}
MergeValues == {Null, Undefined, Bool(FALSE), Str(<<>>), Str(<<"1", "2", "3">>),
                Fin(0, 0), Fin(2, 0), NaN}
MergeObjectsIn ==
    UNION {[d -> MergeValues] : d \in SUBSET MergeKeys}
MergeArgs ==
    {Obj(o) : o \in MergeObjectsIn}
      \cup {Null, Undefined, Fin(0, 0), Str(<<>>), Str(<<"a", "b">>), Symbol}

(***************************************************************************)
(* The state of src/index.js after the module is loaded.                   *)
(***************************************************************************)
DefaultConfig ==
    [key \in {"host", "port", "dataPrefix", "maxReconnectAttemptTimout",
              "maxReconnectTimeout"} |->
       CASE key = "host" -> Str(<<"l", "o", "c", "a", "l", "h", "o", "s", "t">>)
         [] key = "port" -> Str(<<"6", "3", "7", "9">>)
         [] key = "dataPrefix" -> Str(<<"l", "b", "_">>)
         [] key = "maxReconnectAttemptTimout" -> Fin(3000, 0)
         [] key = "maxReconnectTimeout" -> Fin(60 * 60 * 1000, 0)]

Nothing == [kind |-> "nothing"]

InitIndex ==
    /\ config = Obj(DefaultConfig)
    /\ redisReady = FALSE
    /\ redisClient = 0
    /\ connecting = {}
    /\ store = <<>>
    /\ inflight = <<>>
    /\ observed = Nothing
    /\ supplied = DefaultConfig

(***************************************************************************)
(* src/index.js: the values its functions are called with.                 *)
(***************************************************************************)
Keys == {<<"k">>}

InitOptions ==
    { Undefined,
      EmptyObject,
      Obj([key \in {"host", "port", "dataPrefix"} |->
             CASE key = "host" -> Str(<<"h">>)
               [] key = "port" -> Zero
               [] key = "dataPrefix" -> Str(<<>>)]) }

ScalarValues == {Fin(15, -1)}
Lifetimes    == {Undefined, Fin(10, 0)}
ObjectValues == {Obj([p \in {"f", "g"} |-> IF p = "f" THEN Fin(7, 0) ELSE Null])}
ListValues   == {Arr(<<>>), Arr(<<Fin(1, 0), Str(<<"a", "b", "c">>)>>)}
Patterns     == {<<"k">>}

\* The identifiers index.js can resolve: its own declarations and imports.
ModuleBindings ==
    {"redis", "logger", "fromString", "mergeObjects", "isEmpty", "config",
     "redisReady", "params", "createRedisClient", "redisClient",
     "redisPubSubClient", "initialize", "getPubSubRedisClient", "_get", "_set",
     "setValue", "getValue", "setObject", "getObject", "isKeyExist", "setList",
     "getList", "increment", "cleanByKeyPattern", "getKeysByPattern", "expire",
     "remove", "saveSetValue", "removeSetValue", "deleteKey",
     "isValueExistsInSet", "getInfo", "deleteKeysByPattern", "getClient",
     "isClientReady"}

(***************************************************************************)
(* What a call leaves behind when its promise executor returns: the state  *)
(* of the promise and the commands handed to the client.                   *)
(***************************************************************************)
Prop(object, name) ==
    IF name \in DOMAIN object.o THEN object.o[name] ELSE Undefined

Pending(cmds) == [state |-> "pending", value |-> Undefined, send |-> cmds]
Rejected(v)   == [state |-> "rejected", value |-> v, send |-> <<>>]

\* A command handed to the client.  arg and prefix are history: the key the
\* caller passed and config.dataPrefix when the command was sent.
Command(method, key, value, lifetime, op, arg) ==
    [client |-> redisClient, method |-> method, key |-> key, value |-> value,
     lifetime |-> lifetime, op |-> op, arg |-> arg,
     prefix |-> String(Prop(config, "dataPrefix"))]

\* config.dataPrefix + key
PrefixedKey(key) == String(Prop(config, "dataPrefix")) \o key

\* The executor returns the rejected promise instead of calling reject: the
\* promise handed to the caller is left pending and no command is sent.
_get(method, key, op) ==
    IF ~redisReady THEN Pending(<<>>)
    ELSE Pending(<<Command(method, PrefixedKey(key), Null, Undefined, op, key)>>)

_set(method, key, value, lifetime, op) ==
    IF ~redisReady THEN Pending(<<>>)
    ELSE IF ToBoolean(lifetime)
    THEN Pending(<<Command(method, PrefixedKey(key), value, lifetime, op, key)>>)
    ELSE Pending(<<Command(method, PrefixedKey(key), value, Undefined, op, key)>>)

setValue(key, value, lifetime) == _set("set", key, value, lifetime, "setValue")

getValue(key) == _get("get", key, "getValue")

setObject(key, value, lifetime) ==
    _set("hmset", key,
         Obj([property \in DOMAIN value.o |-> Str(String(value.o[property]))]),
         lifetime, "setObject")

getObject(key) == _get("hgetall", key, "getObject")

setList(key, value) ==
    IF Len(value.a) = 0 THEN Rejected(Throw("Can't store empty array"))
    ELSE _set("sadd", key, value, Undefined, "setList")

getList(key) == _get("smembers", key, "getList")

\* A method of the undefined client: the executor throws a TypeError.
remove(key) ==
    IF redisClient = 0 THEN Rejected(Throw("TypeError"))
    ELSE Pending(<<Command("del", key, Null, Undefined, "remove", key)>>)

deleteKey(key) ==
    IF redisClient = 0 THEN Rejected(Throw("TypeError"))
    ELSE Pending(<<Command("del", PrefixedKey(key), Null, Undefined, "deleteKey",
                           key)>>)

\* scanAsync(cursor): the MATCH argument reads the identifier prefix, which
\* index.js never binds, so evaluating it throws before scan is called.
scanAsync(cursor, pattern) ==
    IF redisClient = 0 THEN Rejected(Throw("TypeError"))
    ELSE IF "prefix" \notin ModuleBindings THEN Rejected(Throw("ReferenceError"))
    ELSE Pending(<<Command("scan", <<"*">> \o pattern, Str(cursor), Undefined,
                           "deleteKeysByPattern", pattern)>>)

deleteKeysByPattern(pattern) == scanAsync(<<"0">>, pattern)

(***************************************************************************)
(* The redis server, as the commands index.js sends see it.  An entry is a *)
(* string (with or without a time to live), a hash or a set.               *)
(***************************************************************************)
NoEntry == [type |-> "none"]
StringEntry(v, ttl) == [type |-> "string", v |-> v, ttl |-> ttl]
HashEntry(h)        == [type |-> "hash", h |-> h]
SetEntry(members)   == [type |-> "set", members |-> members]

EntryAt(st, key) == IF key \in DOMAIN st THEN st[key] ELSE NoEntry
Put(st, key, entry) ==
    [k \in DOMAIN st \cup {key} |-> IF k = key THEN entry ELSE st[k]]
Del(st, key) == [k \in DOMAIN st \ {key} |-> st[k]]

Ok(reply, st) == [err |-> Null, reply |-> reply, store |-> st]
WrongType(st) == [err |-> Throw("WRONGTYPE"), reply |-> Undefined, store |-> st]

\* The orders in which the members of a set may be listed.
Listings(S) ==
    {q \in [1..Cardinality(S) -> S] :
       \A i, j \in 1..Cardinality(S) : i # j => q[i] # q[j]}

ExecGet(cmd, st) ==
    CASE EntryAt(st, cmd.key).type = "none"   -> {Ok(Null, st)}
      [] EntryAt(st, cmd.key).type = "string" -> {Ok(Str(st[cmd.key].v), st)}
      [] OTHER -> {WrongType(st)}

\* SET key value, or SET key value NX EX lifetime.
ExecSet(cmd, st) ==
    IF cmd.lifetime = Undefined
    THEN {Ok(Str(<<"O", "K">>), Put(st, cmd.key, StringEntry(String(cmd.value), FALSE)))}
    ELSE IF cmd.key \in DOMAIN st THEN {Ok(Null, st)}
    ELSE {Ok(Str(<<"O", "K">>), Put(st, cmd.key, StringEntry(String(cmd.value), TRUE)))}

HashFields(entry) == IF entry.type = "hash" THEN entry.h ELSE <<>>

ExecHmset(cmd, st) ==
    IF EntryAt(st, cmd.key).type \notin {"none", "hash"} THEN {WrongType(st)}
    ELSE {Ok(Str(<<"O", "K">>),
             Put(st, cmd.key,
                 HashEntry([f \in DOMAIN HashFields(EntryAt(st, cmd.key))
                                    \cup DOMAIN cmd.value.o |->
                              IF f \in DOMAIN cmd.value.o THEN cmd.value.o[f].s
                              ELSE st[cmd.key].h[f]])))}

ExecHgetall(cmd, st) ==
    CASE EntryAt(st, cmd.key).type = "none" -> {Ok(Null, st)}
      [] EntryAt(st, cmd.key).type = "hash" ->
           {Ok(Obj([f \in DOMAIN st[cmd.key].h |-> Str(st[cmd.key].h[f])]), st)}
      [] OTHER -> {WrongType(st)}

Members(entry) == IF entry.type = "set" THEN entry.members ELSE {}
Added(cmd)     == {String(cmd.value.a[i]) : i \in 1..Len(cmd.value.a)}

ExecSadd(cmd, st) ==
    IF EntryAt(st, cmd.key).type \notin {"none", "set"} THEN {WrongType(st)}
    ELSE {Ok(Fin(Cardinality(Added(cmd) \ Members(EntryAt(st, cmd.key))), 0),
             Put(st, cmd.key,
                 SetEntry(Members(EntryAt(st, cmd.key)) \cup Added(cmd))))}

ExecSmembers(cmd, st) ==
    CASE EntryAt(st, cmd.key).type = "none" -> {Ok(Arr(<<>>), st)}
      [] EntryAt(st, cmd.key).type = "set" ->
           {Ok(Arr([i \in DOMAIN q |-> Str(q[i])]), st) :
              q \in Listings(st[cmd.key].members)}
      [] OTHER -> {WrongType(st)}

\* DEL key, or DEL key1 key2 ... when an array of keys is passed.
DelKeys(cmd) ==
    IF cmd.value.t = "array" THEN {cmd.value.a[i].s : i \in DOMAIN cmd.value.a}
    ELSE {cmd.key}

ExecDel(cmd, st) ==
    {Ok(Fin(Cardinality(DelKeys(cmd) \cap DOMAIN st), 0),
        [k \in DOMAIN st \ DelKeys(cmd) |-> st[k]])}

\* SCAN cursor MATCH pattern: some cursor and some batch of the stored keys.
ExecScan(cmd, st) ==
    {Ok(Arr(<<Str(c), Arr([i \in DOMAIN q |-> Str(q[i])])>>), st) :
       c \in {<<"0">>, <<"7">>}, q \in UNION {Listings(S) : S \in SUBSET DOMAIN st}}

Exec(cmd, st) ==
    CASE cmd.method = "get"      -> ExecGet(cmd, st)
      [] cmd.method = "set"      -> ExecSet(cmd, st)
      [] cmd.method = "hmset"    -> ExecHmset(cmd, st)
      [] cmd.method = "hgetall"  -> ExecHgetall(cmd, st)
      [] cmd.method = "sadd"     -> ExecSadd(cmd, st)
      [] cmd.method = "smembers" -> ExecSmembers(cmd, st)
      [] cmd.method = "del"      -> ExecDel(cmd, st)
      [] cmd.method = "scan"     -> ExecScan(cmd, st)

(***************************************************************************)
(* The callbacks and then-handlers of index.js.                            *)
(***************************************************************************)
\* getValue: .then(fromString), passing the raw reply through unchanged
getValueThen_raw(reply) == reply

getValueThen(reply) == fromString(reply)

getObjectThen(object) ==
    IF isEmpty(object) THEN Null
    ELSE Obj([property \in DOMAIN object.o |-> fromString(object.o[property])])

getListThen(list) ==
    IF isEmpty(list) THEN Arr(<<>>)
    ELSE Arr([i \in DOMAIN list.a |-> fromString(list.a[i])])

Then(op, result) ==
    CASE op = "getValue"  -> getValueThen(result)
      [] op = "getObject" -> getObjectThen(result)
      [] op = "getList"   -> getListThen(result)
      [] op = "deleteKey" -> Undefined
      [] OTHER            -> result

\* (err, result) => err ? reject(err) : resolve(result), then the handler
Settle(cmd, out) ==
    IF out.err # Null
    THEN [kind |-> "settled", op |-> cmd.op, key |-> cmd.arg, prefix |-> cmd.prefix,
          state |-> "rejected", reply |-> out.err, value |-> out.err]
    ELSE [kind |-> "settled", op |-> cmd.op, key |-> cmd.arg, prefix |-> cmd.prefix,
          state |-> "resolved", reply |-> out.reply,
          value |-> Then(cmd.op, out.reply)]

\* The scan callback of deleteKeysByPattern: the commands it sends next.
ScanFollowUp(cmd, out) ==
    IF cmd.method # "scan" \/ out.err # Null THEN <<>>
    ELSE (IF Len(out.reply.a[2].a) # 0
          THEN <<[cmd EXCEPT !.method = "del", !.value = out.reply.a[2],
                             !.op = "deleteKeysByPattern.del"]>>
          ELSE <<>>)
         \o (IF out.reply.a[1] = Str(<<"0">>) THEN <<>>
             ELSE <<[cmd EXCEPT !.value = out.reply.a[1]]>>)

\* Whether the callback of cmd settles the promise of its call.
Settles(cmd, out) ==
    CASE cmd.op = "deleteKeysByPattern.del" -> FALSE
      [] cmd.op = "deleteKeysByPattern" ->
           out.err # Null \/ out.reply.a[1] = Str(<<"0">>)
      [] OTHER -> TRUE

Without(q, i) == SubSeq(q, 1, i - 1) \o SubSeq(q, i + 1, Len(q))

(***************************************************************************)
(* The operations of index.js.                                             *)
(***************************************************************************)
ApiCall(op, key, outcome) ==
    /\ Len(inflight) + Len(outcome.send) <= MaxPending
    /\ inflight' = inflight \o outcome.send
    /\ observed' = [kind |-> "returned", op |-> op, key |-> key,
                    ready |-> redisReady, state |-> outcome.state,
                    value |-> outcome.value, sent |-> Len(outcome.send)]
    /\ UNCHANGED <<utilVars, config, redisReady, redisClient, connecting, store,
                   supplied>>

Truthy(object) == {key \in DOMAIN OwnProperties(object) : ToBoolean(OwnProperties(object)[key])}

\* initialize(options): the merged config replaces config and a client (and
\* a pub/sub client, which only logs) is created; the promise resolves when
\* the client's 'ready' event fires.
Initialize ==
    \E options \in InitOptions :
      /\ redisClient < MaxClients
      /\ config' = mergeObjects(config, options)
      /\ redisClient' = redisClient + 1
      /\ connecting' = connecting \cup {redisClient + 1}
      /\ observed' = [kind |-> "returned", op |-> "initialize", key |-> <<>>,
                      ready |-> redisReady, state |-> "pending",
                      value |-> options, sent |-> 0]
      /\ supplied' = [key \in DOMAIN supplied \cup Truthy(options) |->
                        IF key \in Truthy(options) THEN options.o[key]
                        ELSE supplied[key]]
      /\ UNCHANGED <<utilVars, redisReady, store, inflight>>

ClientReady ==
    \E c \in connecting :
      /\ connecting' = connecting \ {c}
      /\ redisReady' = TRUE
      /\ observed' = [kind |-> "settled", op |-> "initialize", key |-> <<>>,
                      prefix |-> <<>>, state |-> "resolved",
                      reply |-> Undefined, value |-> Undefined]
      /\ UNCHANGED <<utilVars, config, redisClient, store, inflight, supplied>>

GetValue == \E key \in Keys : ApiCall("getValue", key, getValue(key))

SetValue ==
    \E key \in Keys, value \in ScalarValues, lifetime \in Lifetimes :
      ApiCall("setValue", key, setValue(key, value, lifetime))

GetObject == \E key \in Keys : ApiCall("getObject", key, getObject(key))

SetObject ==
    \E key \in Keys, value \in ObjectValues :
      ApiCall("setObject", key, setObject(key, value, Undefined))

GetList == \E key \in Keys : ApiCall("getList", key, getList(key))

SetList ==
    \E key \in Keys, value \in ListValues :
      ApiCall("setList", key, setList(key, value))

Remove == \E key \in Keys : ApiCall("remove", key, remove(key))

DeleteKey == \E key \in Keys : ApiCall("deleteKey", key, deleteKey(key))

DeleteKeysByPattern ==
    \E pattern \in Patterns :
      ApiCall("deleteKeysByPattern", pattern, deleteKeysByPattern(pattern))

\* The server answers the oldest command of a connected client and the
\* command's callback runs.
Reply ==
    \E i \in 1..Len(inflight) :
      /\ inflight[i].client \notin connecting
      /\ \A j \in 1..(i - 1) : inflight[j].client # inflight[i].client
      /\ \E out \in Exec(inflight[i], store) :
           /\ Len(inflight) - 1 + Len(ScanFollowUp(inflight[i], out)) <= MaxPending
           /\ store' = out.store
           /\ inflight' = Without(inflight, i) \o ScanFollowUp(inflight[i], out)
           /\ observed' = IF Settles(inflight[i], out) THEN Settle(inflight[i], out)
                          ELSE observed
      /\ UNCHANGED <<utilVars, config, redisReady, redisClient, connecting,
                     supplied>>

\* The time to live of a key set with a lifetime runs out.
Expire ==
    \E key \in DOMAIN store :
      /\ store[key].type = "string"
      /\ store[key].ttl
      /\ store' = Del(store, key)
      /\ UNCHANGED <<utilVars, config, redisReady, redisClient, connecting,
                     inflight, observed, supplied>>

Init == InitIndex /\ uFn = "none" /\ uArgs = <<>> /\ uRet = <<>>

Next ==
    \/ Initialize
    \/ ClientReady
    \/ GetValue
    \/ SetValue
    \/ GetObject
    \/ SetObject
    \/ GetList
    \/ SetList
    \/ Remove
    \/ DeleteKey
    \/ DeleteKeysByPattern
    \/ Reply
    \/ Expire

Spec == Init /\ [][Next]_vars

(***************************************************************************)
(* The helpers called on their own: the arguments are drawn at the start,  *)
(* mergeObjects is applied once, and fromString once and then again to     *)
(* its own result.                                                         *)
(***************************************************************************)
InitUtils ==
    /\ InitIndex
    /\ uRet = <<>>
    /\ \/ uFn = "mergeObjects" /\ uArgs \in MergeArgs \X MergeArgs
       \/ uFn = "fromString" /\ uArgs \in {<<x>> : x \in CoerceInputs}

CallMergeObjects ==
    /\ uFn = "mergeObjects"
    /\ uRet = <<>>
    /\ uRet' = <<mergeObjects(uArgs[1], uArgs[2])>>
    /\ UNCHANGED <<uFn, uArgs, indexVars>>

CallFromString ==
    /\ uFn = "fromString"
    /\ uRet = <<>>
    /\ uRet' = <<fromString(uArgs[1])>>
    /\ UNCHANGED <<uFn, uArgs, indexVars>>

CallFromStringAgain ==
    /\ uFn = "fromString"
    /\ Len(uRet) = 1
    /\ uRet[1].t # "throw"
    /\ uRet' = Append(uRet, fromString(uRet[1]))
    /\ UNCHANGED <<uFn, uArgs, indexVars>>

NextUtils == CallMergeObjects \/ CallFromString \/ CallFromStringAgain

SpecUtils == InitUtils /\ [][NextUtils]_vars

Merged  == uFn = "mergeObjects" /\ Len(uRet) = 1
Coerced == uFn = "fromString" /\ Len(uRet) >= 1

(***************************************************************************)
(* Claims about src/lib/utils.js, checked under SpecUtils.                 *)
(***************************************************************************)
ListedFalsy == {Str(<<>>), Zero, Null, Undefined, Bool(FALSE)}

\* C1: for mappings base and override, mergeObjects returns the keys of base
\* plus the keys of override with a truthy value, each holding override's
\* value when that is truthy and base's value otherwise; a falsy override
\* value never replaces a base value (falsy or not) and is never added.
C1_MergeOverlay ==
    (Merged /\ uArgs[1].t = "object" /\ uArgs[2].t = "object") =>
      /\ uRet[1].t = "object"
      /\ DOMAIN uRet[1].o =
           DOMAIN uArgs[1].o \cup {k \in DOMAIN uArgs[2].o : ToBoolean(uArgs[2].o[k])}
      /\ \A k \in DOMAIN uRet[1].o :
           uRet[1].o[k] = IF k \in DOMAIN uArgs[2].o /\ ToBoolean(uArgs[2].o[k])
                          THEN uArgs[2].o[k] ELSE uArgs[1].o[k]
      /\ \A k \in DOMAIN uArgs[2].o :
           uArgs[2].o[k] \in ListedFalsy =>
             IF k \in DOMAIN uArgs[1].o
             THEN k \in DOMAIN uRet[1].o /\ uRet[1].o[k] = uArgs[1].o[k]
             ELSE k \notin DOMAIN uRet[1].o

\* A merge where a falsy override meets a falsy base value, a falsy override
\* has no base key, and a truthy override replaces a base value.
C1_Witness ==
    /\ Merged
    /\ uArgs[1] = Obj([k \in {"foo"} |-> Null])
    /\ uArgs[2].t = "object"
    /\ DOMAIN uArgs[2].o = {"foo", "bar"}
    /\ uArgs[2].o["foo"] = Zero
    /\ uArgs[2].o["bar"] = Bool(FALSE)
    /\ uRet[1] = uArgs[1]

\* C2 as written: fromString returns null for the number 0 and for the string "0".
C2_Original ==
    (Coerced /\ uArgs[1] \in {Zero, Str(<<"0">>)}) => uRet[1] = Null

\* C2 amended: fromString returns null for the number 0, and the number 0 for
\* the string "0", which is a non-empty string and so not classified as empty.
C2_ZeroCoercion ==
    /\ (Coerced /\ uArgs[1] = Zero) => uRet[1] = Null
    /\ (Coerced /\ uArgs[1] = Str(<<"0">>)) => uRet[1] = Zero

C2_Witness == Coerced /\ uArgs[1] = Str(<<"0">>) /\ uRet[1].t = "number"

NativeTypes == {"number", "string", "null", "undefined"}

\* C3 as written: fromString(fromString(x)) = fromString(x) for every number,
\* string, null and undefined x.
C3_Original ==
    (uFn = "fromString" /\ Len(uRet) = 2 /\ uArgs[1].t \in NativeTypes) =>
      uRet[2] = uRet[1]

\* The strings whose first coercion is undefined, 0 or NaN: "undefined", and
\* the non-empty strings that Number() accepts while parseFloat reads 0 or
\* nothing (a zero, white space only, a hexadecimal literal).
CoercesToFalsy(x) ==
    /\ x.t = "string"
    /\ \/ x.s = UndefinedLit
       \/ /\ x.s # <<>>
          /\ StringToNumber(x.s) # NaN
          /\ ParseDecimal(TrimLeft(x.s)).v \in {Zero, NaN}

\* C3 amended: fromString(fromString(x)) = fromString(x) for every number,
\* null and undefined x and for every string x except "undefined" and the
\* strings that coerce to 0 or NaN; for those the second result is null.
C3_IdempotentAmended ==
    (uFn = "fromString" /\ Len(uRet) = 2 /\ uArgs[1].t \in NativeTypes) =>
      IF CoercesToFalsy(uArgs[1])
      THEN uRet[2] = Null /\ uRet[1] \in {Undefined, Zero, NaN}
      ELSE uRet[2] = uRet[1]

\* A numeric string with a fraction, coerced twice.
C3_Witness ==
    /\ uFn = "fromString"
    /\ Len(uRet) = 2
    /\ uArgs[1] = Str(<<"1", ".", "5">>)
    /\ uRet[1] = Fin(15, -1)
    /\ uRet[2] = Fin(15, -1)

\* C4: an input that is neither empty nor "undefined" comes back unchanged
\* when it cannot be parsed as a number, and as the number it denotes
\* otherwise (a native non-zero number unchanged).
C4_Original ==
    (Coerced /\ uArgs[1].t \in {"number", "string"}
       /\ ~isEmpty(uArgs[1]) /\ uArgs[1] # Str(UndefinedLit)) =>
      IF ToNumber(uArgs[1]) = NaN THEN uRet[1] = uArgs[1]
      ELSE uRet[1] = ToNumber(uArgs[1])

\* C5: neither helper raises for any argument; mergeObjects with a
\* missing base or override returns an empty mapping; fromString of null or
\* undefined returns null.
C5_Original ==
    Len(uRet) >= 1 =>
      /\ uRet[1].t # "throw"
      /\ (Merged /\ (uArgs[1] \in {Null, Undefined} \/ uArgs[2] \in {Null, Undefined}))
           => uRet[1] = EmptyObject
      /\ (Coerced /\ uArgs[1] \in {Null, Undefined}) => uRet[1] = Null

(***************************************************************************)
(* Claims about src/index.js, checked under Spec.                          *)
(***************************************************************************)
Returned(op) == observed.kind = "returned" /\ observed.op = op
Resolved(op) ==
    observed.kind = "settled" /\ observed.op = op /\ observed.state = "resolved"

\* C6: after any sequence of initialize(options) calls every configuration
\* field holds the latest truthy override supplied for it, or its default
\* when none was supplied.
C6_Original ==
    \A key \in DOMAIN supplied :
      key \in DOMAIN config.o /\ config.o[key] = supplied[key]

\* C7: getValue resolves with fromString(reply); getObject resolves with null
\* for an empty reply and else with fromString of every field of the hash;
\* getList resolves with fromString of every member, in the reply's order.
C7_RepliesCoerced ==
    /\ Resolved("getValue") => observed.value = fromString(observed.reply)
    /\ Resolved("getObject") =>
         IF observed.reply = Null THEN observed.value = Null
         ELSE /\ observed.value.t = "object"
              /\ DOMAIN observed.value.o = DOMAIN observed.reply.o
              /\ \A f \in DOMAIN observed.reply.o :
                   observed.value.o[f] = fromString(observed.reply.o[f])
    /\ Resolved("getList") =>
         /\ observed.value.t = "array"
         /\ Len(observed.value.a) = Len(observed.reply.a)
         /\ \A i \in 1..Len(observed.reply.a) :
              observed.value.a[i] = fromString(observed.reply.a[i])

\* A stored hash read back: the field "7" as the number 7, "null" as null.
C7_Witness ==
    /\ Resolved("getObject")
    /\ observed.reply = Obj([p \in {"f", "g"} |->
                               IF p = "f" THEN Str(<<"7">>) ELSE Str(NullLit)])
    /\ observed.value = Obj([p \in {"f", "g"} |-> IF p = "f" THEN Fin(7, 0) ELSE Null])

\* C8: a _get or _set call made while redisReady is false sends no command
\* and its promise is rejected with 'Redis is not ready' (setList: for a
\* non-empty value).
C8_Original ==
    ( /\ observed.kind = "returned"
      /\ observed.op \in {"getValue", "setValue", "getObject", "setObject",
                          "getList", "setList"}
      /\ ~observed.ready
      /\ observed.value # Throw("Can't store empty array") ) =>
      /\ observed.sent = 0
      /\ observed.state = "rejected"

\* C9: deleteKeysByPattern, called on a ready client, starts a scan at cursor
\* '0' and its promise is pending until a scan reply arrives.
C9_Original ==
    (Returned("deleteKeysByPattern") /\ observed.ready) =>
      /\ observed.state = "pending"
      /\ observed.sent = 1
      /\ LET send == deleteKeysByPattern(observed.key).send
         IN  /\ Len(send) = 1
             /\ send[1].method = "scan"
             /\ send[1].value = Str(<<"0">>)

\* C10: once remove(key) or deleteKey(key) has resolved, the store key that
\* setValue(key, v) writes is gone, so that getValue(key) resolves with null.
\* Stated for calls made while config.dataPrefix is the prefix supplied (the
\* default, or the latest truthy override).
C10_Original ==
    ( /\ Resolved("remove") \/ Resolved("deleteKey")
      /\ observed.prefix = String(supplied["dataPrefix"]) ) =>
      observed.prefix \o observed.key \notin DOMAIN store

====
